---- MODULE Spec2Model ----
(***************************************************************************)
(* Model of the `Dataclass` derive macro (src/src/lib.rs).                 *)
(*                                                                         *)
(* The macro is a pure, single-pass transform of one type definition.  It  *)
(* is modelled as a state machine whose steps are the stages of            *)
(* impl_dataclass, followed by the operations of the code it generates     *)
(* (new, default, clone, eq, fmt) run on instances.                        *)
(*                                                                         *)
(* Text is a sequence of one-character strings, so that the splitter, the  *)
(* trimming and the quote stripping work on characters as the code does.   *)
(***************************************************************************)
EXTENDS Integers, Sequences, FiniteSets, TLC

\* Largest number of fields of a type definition the model explores.
MaxFields == 2

----------------------------------------------------------------------------
(* Characters and text                                                     *)

QUOTE == "\""
BACKSLASH == "\\"

Digits == {"0", "1", "2"}
Letters == {"a", "b", "d", "e", "f", "l", "o", "p", "r", "s", "t", "u", "N"}

\* str::trim_start / trim_end / trim: strip whitespace at the ends.
RECURSIVE TrimStart(_)
TrimStart(s) ==
    IF s # <<>> /\ Head(s) = " " THEN TrimStart(Tail(s)) ELSE s

RECURSIVE TrimEnd(_)
TrimEnd(s) ==
    IF s # <<>> /\ s[Len(s)] = " " THEN TrimEnd(SubSeq(s, 1, Len(s) - 1)) ELSE s

Trim(s) == TrimEnd(TrimStart(s))

\* str::trim_start_matches(c): strip every leading c.
RECURSIVE TrimStartMatches(_, _)
TrimStartMatches(s, c) ==
    IF s # <<>> /\ Head(s) = c THEN TrimStartMatches(Tail(s), c) ELSE s

\* str::trim_end_matches(c): strip every trailing c.
RECURSIVE TrimEndMatches(_, _)
TrimEndMatches(s, c) ==
    IF s # <<>> /\ s[Len(s)] = c
    THEN TrimEndMatches(SubSeq(s, 1, Len(s) - 1), c)
    ELSE s

StartsWith(s, p) == Len(s) >= Len(p) /\ SubSeq(s, 1, Len(p)) = p

EndsWith(s, p) ==
    Len(s) >= Len(p) /\ SubSeq(s, Len(s) - Len(p) + 1, Len(s)) = p

\* str::find(c): the first position of c, 0 when there is none.
Find(s, c) ==
    IF \E i \in 1..Len(s) : s[i] = c
    THEN CHOOSE i \in 1..Len(s) : s[i] = c /\ \A j \in 1..(i - 1) : s[j] # c
    ELSE 0

----------------------------------------------------------------------------
(* The directive splitter, lib.rs lines 89-107                             *)

\* `inside`: the attribute's token text, trimmed, with leading '(' and
\* trailing ')' stripped.
Inside(tokens) == TrimEndMatches(TrimStartMatches(Trim(tokens), "("), ")")

\* The loop over char_indices: a '"' toggles in_quotes, a ',' seen while
\* in_quotes is false closes the part from `start` and starts the next one.
\* `cuts` records the positions of the commas the loop split on.
RECURSIVE SplitLoop(_, _, _, _, _)
SplitLoop(inside, i, start, in_quotes, acc) ==
    IF i > Len(inside)
    THEN [parts |-> acc.parts, cuts |-> acc.cuts, start |-> start]
    ELSE IF inside[i] = QUOTE
    THEN SplitLoop(inside, i + 1, start, ~in_quotes, acc)
    ELSE IF inside[i] = "," /\ ~in_quotes
    THEN SplitLoop(inside, i + 1, i + 1, in_quotes,
                   [parts |-> Append(acc.parts, Trim(SubSeq(inside, start, i - 1))),
                    cuts |-> Append(acc.cuts, i)])
    ELSE SplitLoop(inside, i + 1, start, in_quotes, acc)

\* The parts of one attribute: the loop, then the tail after the last comma.
SplitParts(inside) ==
    LET r == SplitLoop(inside, 1, 1, FALSE, [parts |-> <<>>, cuts |-> <<>>])
    IN  [inside |-> inside,
         cuts |-> r.cuts,
         parts |-> IF r.start <= Len(inside)
                   THEN Append(r.parts, Trim(SubSeq(inside, r.start, Len(inside))))
                   ELSE r.parts]

----------------------------------------------------------------------------
(* syn::parse_str::<Expr>, called at lib.rs line 121: the text is lexed    *)
(* into tokens and must be exactly one expression.  The grammar covers     *)
(* literals, identifiers, calls, tuples/parentheses, `=` and `==`.         *)

\* The end of the run of characters of `set` that starts at position i.
RECURSIVE RunEnd(_, _, _)
RunEnd(s, i, set) ==
    IF i <= Len(s) /\ s[i] \in set THEN RunEnd(s, i + 1, set) ELSE i

\* From position i inside a string literal: the position of the closing
\* quote, 0 when the literal is not terminated or holds a bad escape.
RECURSIVE StrEnd(_, _)
StrEnd(s, i) ==
    IF i > Len(s) THEN 0
    ELSE IF s[i] = BACKSLASH
    THEN IF i + 1 <= Len(s) /\ s[i + 1] \in {QUOTE, BACKSLASH, "n", "t", "r", "0"}
         THEN StrEnd(s, i + 2)
         ELSE 0
    ELSE IF s[i] = QUOTE THEN i
    ELSE StrEnd(s, i + 1)

Tok(k, t) == [k |-> k, t |-> t]

RECURSIVE Lex(_, _, _)
Lex(s, i, acc) ==
    IF i > Len(s) THEN [ok |-> TRUE, toks |-> acc]
    ELSE IF s[i] = " " THEN Lex(s, i + 1, acc)
    ELSE IF s[i] \in Digits
    THEN LET j == RunEnd(s, i, Digits \cup Letters)
         IN  Lex(s, j, Append(acc, Tok("lit", SubSeq(s, i, j - 1))))
    ELSE IF s[i] \in Letters
    THEN LET j == RunEnd(s, i, Digits \cup Letters)
         IN  Lex(s, j, Append(acc, Tok("ident", SubSeq(s, i, j - 1))))
    ELSE IF s[i] = QUOTE
    THEN LET j == StrEnd(s, i + 1)
         IN  IF j = 0 THEN [ok |-> FALSE, toks |-> <<>>]
             ELSE Lex(s, j + 1, Append(acc, Tok("lit", SubSeq(s, i, j))))
    ELSE IF s[i] \in {"(", ")", ",", "="}
    THEN Lex(s, i + 1, Append(acc, Tok("punct", <<s[i]>>)))
    ELSE [ok |-> FALSE, toks |-> <<>>]

IsPunct(toks, i, c) == i <= Len(toks) /\ toks[i] = Tok("punct", <<c>>)

\* Each parser returns the position after what it parsed, 0 on failure.
RECURSIVE ParseExpr(_, _)
RECURSIVE ParseArgs(_, _)
RECURSIVE ParseCalls(_, _)

ParsePrimary(toks, i) ==
    IF i > Len(toks) THEN 0
    ELSE IF toks[i].k \in {"lit", "ident"} THEN i + 1
    ELSE IF IsPunct(toks, i, "(") THEN ParseArgs(toks, i + 1)
    ELSE 0

\* After a '(': expressions separated by commas (a trailing comma allowed),
\* then the ')'.
ParseArgs(toks, i) ==
    IF i > Len(toks) THEN 0
    ELSE IF IsPunct(toks, i, ")") THEN i + 1
    ELSE LET j == ParseExpr(toks, i)
         IN  IF j = 0 THEN 0
             ELSE IF IsPunct(toks, j, ",") THEN ParseArgs(toks, j + 1)
             ELSE IF IsPunct(toks, j, ")") THEN j + 1
             ELSE 0

\* Call suffixes: f(..)(..)
ParseCalls(toks, j) ==
    IF j # 0 /\ IsPunct(toks, j, "(")
    THEN ParseCalls(toks, ParseArgs(toks, j + 1))
    ELSE j

ParseExpr(toks, i) ==
    LET j == ParseCalls(toks, ParsePrimary(toks, i))
    IN  IF j = 0 THEN 0
        ELSE IF IsPunct(toks, j, "=") /\ IsPunct(toks, j + 1, "=")
        THEN ParseExpr(toks, j + 2)
        ELSE IF IsPunct(toks, j, "=") THEN ParseExpr(toks, j + 1)
        ELSE j

\* parse_str: ok with the expression's tokens, or a parse error.
ParseStr(s) ==
    LET l == Lex(s, 1, <<>>)
    IN  IF l.ok /\ l.toks # <<>> /\ ParseExpr(l.toks, 1) = Len(l.toks) + 1
        THEN [ok |-> TRUE, toks |-> l.toks]
        ELSE [ok |-> FALSE, toks |-> <<>>]

----------------------------------------------------------------------------
(* The annotated type definition handed to the macro                       *)

\* A directive as written in the source: a key, alone (`default`), with a
\* quoted value (`default = "expr"`, val being the expression text the
\* string literal denotes) or with an unquoted value (`default = 2`).
Dir(key, form, val, tight) ==
    [key |-> key, form |-> form, val |-> val, tight |-> tight]

\* An attribute on a field: #[path(dirs)] (meta "list") or #[path] ("path").
Attr(path, meta, dirs) == [path |-> path, meta |-> meta, dirs |-> dirs]

KwDefault == <<"d", "e", "f", "a", "u", "l", "t">>
KwRepr == <<"r", "e", "p", "r">>

TxtOne == <<"1">>
TxtTwo == <<"2">>
TxtFalse == <<"f", "a", "l", "s", "e">>
TxtCall == <<"f", "(", "1", ",", " ", "2", ")">>
TxtCallStr == <<"f", "(", QUOTE, "a", ",", "b", QUOTE, ")">>
TxtOpen == <<"f", "(", "1">>
TxtCallOne == <<"f", "(", "1", ")">>
TxtStrCmp == <<QUOTE, "f", "(", QUOTE, " ", "=", "=", " ", QUOTE, ")", QUOTE>>

DBare == Dir(KwDefault, "bare", <<>>, FALSE)
DQuoted(e) == Dir(KwDefault, "quoted", e, FALSE)
DRaw(e, tight) == Dir(KwDefault, "raw", e, tight)
DRepr == Dir(KwRepr, "raw", TxtFalse, FALSE)

DataclassAttr(dirs) == Attr("dataclass", "list", dirs)

\* The field declarations a type definition is built from: a type and the
\* attributes written on the field.
FieldChoices ==
    { [ty |-> "i32", attrs |-> <<>>],
      [ty |-> "f64", attrs |-> <<>>],
      [ty |-> "i32", attrs |-> <<DataclassAttr(<<DBare>>)>>],
      [ty |-> "i32", attrs |-> <<DataclassAttr(<<DQuoted(TxtOne)>>)>>],
      [ty |-> "f64", attrs |-> <<DataclassAttr(<<DQuoted(TxtCall)>>)>>],
      [ty |-> "f64", attrs |-> <<DataclassAttr(<<DQuoted(TxtCallStr)>>)>>],
      [ty |-> "i32", attrs |-> <<DataclassAttr(<<DQuoted(TxtOpen)>>)>>],
      [ty |-> "i32", attrs |-> <<DataclassAttr(<<DRepr>>)>>],
      [ty |-> "i32", attrs |-> <<DataclassAttr(<<DBare, DQuoted(TxtTwo)>>)>>],
      [ty |-> "i32", attrs |-> <<DataclassAttr(<<DQuoted(TxtOne), DRepr>>)>>],
      [ty |-> "i32", attrs |-> <<DataclassAttr(<<DRaw(TxtTwo, TRUE)>>)>>],
      [ty |-> "i32", attrs |-> <<DataclassAttr(<<DRaw(TxtCallOne, FALSE)>>)>>],
      [ty |-> "i32", attrs |-> <<DataclassAttr(<<DRaw(TxtStrCmp, FALSE)>>)>>],
      [ty |-> "i32", attrs |-> <<Attr("serde", "list", <<DBare>>)>>],
      [ty |-> "i32", attrs |-> <<Attr("dataclass", "path", <<>>)>>],
      [ty |-> "i32", attrs |-> <<DataclassAttr(<<DQuoted(TxtOne)>>),
                                 DataclassAttr(<<DBare>>)>>] }

FieldNames == <<"a", "b", "c", "d">>

\* A generic parameter of the type: a type parameter or a lifetime.
GenericParam(kind, ident) == [kind |-> kind, ident |-> ident]

\* One predicate of a where clause: the capabilities required of `ident`.
Bound(ident, caps) == [ident |-> ident, caps |-> caps]

\* The shape, generic parameters and where clause of the type definition.
Headers ==
    { [shape |-> "named", generics |-> <<>>, where_clause |-> <<>>],
      [shape |-> "named", generics |-> <<GenericParam("type", "T")>>,
       where_clause |-> <<>>],
      [shape |-> "named",
       generics |-> <<GenericParam("lifetime", "'a"), GenericParam("type", "T"),
                      GenericParam("type", "U")>>,
       where_clause |-> <<Bound("T", {"Copy"})>>],
      [shape |-> "named", generics |-> <<GenericParam("lifetime", "'a")>>,
       where_clause |-> <<>>],
      [shape |-> "tuple", generics |-> <<>>, where_clause |-> <<>>],
      [shape |-> "unit", generics |-> <<>>, where_clause |-> <<>>],
      [shape |-> "enum", generics |-> <<GenericParam("type", "T")>>,
       where_clause |-> <<>>] }

FieldLists ==
    UNION { [1..n -> FieldChoices] : n \in 0..MaxFields }

Inputs ==
    { [shape |-> h.shape, generics |-> h.generics,
       where_clause |-> h.where_clause,
       fields |-> [i \in 1..Len(fl) |->
                      [ident |-> FieldNames[i], ty |-> fl[i].ty,
                       attrs |-> fl[i].attrs]]] :
      h \in Headers, fl \in FieldLists }

----------------------------------------------------------------------------
(* list.tokens.to_string(), lib.rs line 87: the attribute's tokens as text *)

\* The source form of a string literal's content: '"' and '\' are escaped.
RECURSIVE Escape(_)
Escape(s) ==
    IF s = <<>> THEN <<>>
    ELSE (IF Head(s) \in {QUOTE, BACKSLASH} THEN <<BACKSLASH, Head(s)>>
          ELSE <<Head(s)>>) \o Escape(Tail(s))

RenderDir(d) ==
    d.key \o
    (IF d.form = "bare" THEN <<>>
     ELSE (IF d.tight THEN <<"=">> ELSE <<" ", "=", " ">>) \o
          (IF d.form = "quoted" THEN <<QUOTE>> \o Escape(d.val) \o <<QUOTE>>
           ELSE d.val))

RECURSIVE Render(_)
Render(dirs) ==
    IF dirs = <<>> THEN <<>>
    ELSE IF Len(dirs) = 1 THEN RenderDir(dirs[1])
    ELSE RenderDir(dirs[1]) \o <<",", " ">> \o Render(Tail(dirs))

----------------------------------------------------------------------------
(* Per-field directive processing, lib.rs lines 81-138                     *)

\* A field's default: none, `::core::default::Default::default()` ("zero")
\* or the tokens of a parsed expression ("expr").
DefaultNone == [k |-> "none", toks |-> <<>>]
DefaultZero == [k |-> "zero", toks |-> <<>>]
DefaultExpr(toks) == [k |-> "expr", toks |-> toks]

NoErr == [msg |-> "", on |-> "", name |-> "", detail |-> <<>>]
FieldErr(msg, ident, detail) ==
    [msg |-> msg, on |-> "field", name |-> ident, detail |-> detail]
TypeErr(msg) == [msg |-> msg, on |-> "type", name |-> "ident", detail |-> <<>>]

MsgUnknown == "unknown dataclass attribute"
MsgInvalid == "invalid default expression: {}"
MsgNamed == "Dataclass macro only supports structs with named fields"
MsgStruct == "Dataclass macro requires a struct"
MsgPanic == "proc-macro derive panicked"

\* Lines 113-120: the text after the first '=', without surrounding quotes.
\* A lone '"' makes the slice 1..0, which panics.
Rhs(part) == Trim(SubSeq(part, Find(part, "=") + 1, Len(part)))

StripQuotes(rhs) ==
    IF StartsWith(rhs, <<QUOTE>>) /\ EndsWith(rhs, <<QUOTE>>)
    THEN SubSeq(rhs, 2, Len(rhs) - 1)
    ELSE rhs

\* Lines 108-135: the parts in order; the first failing part returns.
RECURSIVE ParseParts(_, _, _, _)
ParseParts(ps, k, ident, default) ==
    IF k > Len(ps) THEN [err |-> NoErr, default |-> default]
    ELSE IF ps[k] = <<>> THEN ParseParts(ps, k + 1, ident, default)
    ELSE IF ps[k] = KwDefault
    THEN ParseParts(ps, k + 1, ident, DefaultZero)
    ELSE IF StartsWith(ps[k], KwDefault \o <<"=">>)
            \/ StartsWith(ps[k], KwDefault \o <<" ", "=">>)
    THEN IF Rhs(ps[k]) = <<QUOTE>>
         THEN [err |-> FieldErr(MsgPanic, ident, <<>>), default |-> default]
         ELSE LET e == ParseStr(StripQuotes(Rhs(ps[k])))
              IN  IF e.ok
                  THEN ParseParts(ps, k + 1, ident, DefaultExpr(e.toks))
                  ELSE [err |-> FieldErr(MsgInvalid, ident, <<"syn parse error">>),
                        default |-> default]
    ELSE [err |-> FieldErr(MsgUnknown, ident, <<>>), default |-> default]

\* Lines 82-137: the attributes in order; only #[dataclass(...)] lists count.
\* `splits` collects the splitter's result for every attribute processed.
RECURSIVE ParseAttrs(_, _, _, _, _)
ParseAttrs(attrs, a, ident, default, splits) ==
    IF a > Len(attrs)
    THEN [err |-> NoErr, default |-> default, splits |-> splits]
    ELSE IF attrs[a].path = "dataclass" /\ attrs[a].meta = "list"
    THEN LET sp == SplitParts(Inside(Render(attrs[a].dirs)))
             r == ParseParts(sp.parts, 1, ident, default)
         IN  IF r.err # NoErr
             THEN [err |-> r.err, default |-> r.default,
                   splits |-> Append(splits, sp)]
             ELSE ParseAttrs(attrs, a + 1, ident, r.default, Append(splits, sp))
    ELSE ParseAttrs(attrs, a + 1, ident, default, splits)

ParseField(field) == ParseAttrs(field.attrs, 1, field.ident, DefaultNone, <<>>)

FieldInfo(ident, ty, default) == [ident |-> ident, ty |-> ty, default |-> default]

----------------------------------------------------------------------------
(* State                                                                   *)

VARIABLES
    input,              \* the DeriveInput handed to dataclass_macro
    pc,                 \* position in impl_dataclass / in the generated code
    visited,            \* fields the collection loop has taken up
    splits,             \* splitter results of the field processed last
    infos,              \* Vec<FieldInfo>
    err,                \* the syn::Error returned, NoErr when none
    params,             \* parameters of `new`
    construct_fields,   \* field initialisers of `new`
    all_have_default,
    bounds,             \* clone/debug/partial/eq/default where clauses
    expanded,           \* the token stream built by impl_dataclass
    emitted,            \* what dataclass_macro hands back to the compiler
    inst,               \* an instance built by the generated code
    copy,               \* its clone
    eq_result,          \* result of the generated eq on inst and copy
    fmt_out,            \* fields the generated Debug impl printed
    call                \* how inst was built: the function and its arguments

vars == <<input, pc, visited, splits, infos, err, params, construct_fields,
          all_have_default, bounds, expanded, emitted, inst, copy, eq_result,
          fmt_out, call>>

stage == <<params, construct_fields, all_have_default, bounds, expanded>>
run == <<inst, copy, eq_result, fmt_out, call>>

\* One generated impl block, or its absence.
Impl(where, ps, body) ==
    [present |-> TRUE, bounds |-> where, params |-> ps, body |-> body]
NoImpl == [present |-> FALSE, bounds |-> <<>>, params |-> <<>>, body |-> <<>>]

NoExpansion ==
    [new |-> NoImpl, clone |-> NoImpl, debug |-> NoImpl, partial_eq |-> NoImpl,
     eq |-> NoImpl, default |-> NoImpl]

NoBounds ==
    [clone |-> <<>>, debug |-> <<>>, partial |-> <<>>, eq |-> <<>>,
     default |-> <<>>]

Init ==
    /\ input \in Inputs
    /\ pc = "start"
    /\ visited = 0
    /\ splits = <<>>
    /\ infos = <<>>
    /\ err = NoErr
    /\ params = <<>>
    /\ construct_fields = <<>>
    /\ all_have_default = TRUE
    /\ bounds = NoBounds
    /\ expanded = NoExpansion
    /\ emitted = [kind |-> "none", error |-> NoErr, impls |-> NoExpansion]
    /\ inst = <<>>
    /\ copy = <<>>
    /\ eq_result = "none"
    /\ fmt_out = <<>>
    /\ call = [fn |-> "none", args |-> <<>>]

----------------------------------------------------------------------------
(* impl_dataclass                                                          *)

\* MatchFields with the check on the kind of fields left out: every struct
\* goes on to the field loop.
MatchFieldsAnyStruct ==
    /\ pc = "start"
    /\ IF input.shape \in {"named", "tuple", "unit"}
       THEN /\ pc' = "fields"
            /\ err' = err
       ELSE /\ pc' = "err"
            /\ err' = TypeErr(MsgStruct)
    /\ UNCHANGED <<input, visited, splits, infos, stage, emitted, run>>

\* Lines 47-64: only structs with named fields are supported.
MatchFields ==
    /\ pc = "start"
    /\ IF input.shape = "named"
       THEN /\ pc' = "fields"
            /\ err' = err
       ELSE /\ pc' = "err"
            /\ err' = TypeErr(IF input.shape \in {"tuple", "unit"}
                              THEN MsgNamed ELSE MsgStruct)
    /\ UNCHANGED <<input, visited, splits, infos, stage, emitted, run>>

\* CollectField with a failing field skipped instead of returned.
CollectFieldSkipping ==
    /\ pc = "fields"
    /\ visited < Len(input.fields)
    /\ LET field == input.fields[visited + 1]
           r == ParseField(field)
       IN  /\ visited' = visited + 1
           /\ splits' = r.splits
           /\ infos' = IF r.err = NoErr
                       THEN Append(infos, FieldInfo(field.ident, field.ty, r.default))
                       ELSE infos
           /\ UNCHANGED <<pc, err>>
    /\ UNCHANGED <<input, stage, emitted, run>>

\* Lines 74-141: one iteration of the loop over the fields.
CollectField ==
    /\ pc = "fields"
    /\ visited < Len(input.fields)
    /\ LET field == input.fields[visited + 1]
           r == ParseField(field)
       IN  /\ visited' = visited + 1
           /\ splits' = r.splits
           /\ IF r.err = NoErr
              THEN /\ infos' = Append(infos, FieldInfo(field.ident, field.ty, r.default))
                   /\ UNCHANGED <<pc, err>>
              ELSE /\ err' = r.err
                   /\ pc' = "err"
                   /\ infos' = infos
    /\ UNCHANGED <<input, stage, emitted, run>>

\* NewParams with a parameter for every field, defaulted or not.
NewParamsAll(fs) == [i \in 1..Len(fs) |-> [ident |-> fs[i].ident, ty |-> fs[i].ty]]

\* NewParams that stops at the first field with a default.
RECURSIVE NewParamsUntilDefault(_)
NewParamsUntilDefault(fs) ==
    IF fs = <<>> \/ Head(fs).default.k # "none" THEN <<>>
    ELSE <<[ident |-> Head(fs).ident, ty |-> Head(fs).ty]>>
         \o NewParamsUntilDefault(Tail(fs))

\* Lines 147-158, `params`: a parameter for every field without a default.
NewParams(fs) ==
    LET NoDefault(f) == f.default.k = "none"
        sel == SelectSeq(fs, NoDefault)
    IN  [i \in 1..Len(sel) |-> [ident |-> sel[i].ident, ty |-> sel[i].ty]]

\* Lines 147-158, `construct_fields`: `ident` (the parameter) for a field
\* without a default, `ident: expr` for a field with one.
ConstructFields(fs) ==
    [i \in 1..Len(fs) |->
        [ident |-> fs[i].ident,
         init |-> IF fs[i].default.k = "none"
                  THEN [k |-> "param", toks |-> <<>>]
                  ELSE fs[i].default]]

\* AllHaveDefault that is satisfied by one field with a default.
AllHaveDefaultAny(fs) ==
    fs = <<>> \/ \E i \in 1..Len(fs) : fs[i].default.k # "none"

AllHaveDefault(fs) == \A i \in 1..Len(fs) : fs[i].default.k # "none"

\* Lines 143-162: the loop over infos that builds `new`.
BuildNew ==
    /\ pc = "fields"
    /\ visited = Len(input.fields)
    /\ params' = NewParams(infos)
    /\ construct_fields' = ConstructFields(infos)
    /\ all_have_default' = AllHaveDefault(infos)
    /\ pc' = "bounds"
    /\ UNCHANGED <<input, visited, splits, infos, err, bounds, expanded,
                   emitted, run>>

\* Lines 165-172: the identifiers of the type parameters.
TypeIdents(generics) ==
    LET IsType(p) == p.kind = "type"
        sel == SelectSeq(generics, IsType)
    IN  [i \in 1..Len(sel) |-> sel[i].ident]

Capabilities == {"Clone", "Debug", "PartialEq", "Eq", "Default"}

\* Lines 181-183: `where T: Clone + Debug + PartialEq + Eq + Default, ...`
BoundsTokens(type_idents) ==
    [i \in 1..Len(type_idents) |-> Bound(type_idents[i], Capabilities)]

CloneBounds(in) ==
    IF TypeIdents(in.generics) # <<>>
    THEN BoundsTokens(TypeIdents(in.generics))
    ELSE in.where_clause

\* DebugBounds left at the where clause as written.
DebugBoundsAsWritten(in) == in.where_clause

DebugBounds(in) ==
    IF TypeIdents(in.generics) # <<>> THEN CloneBounds(in) ELSE in.where_clause

PartialBounds(in) ==
    IF TypeIdents(in.generics) # <<>> THEN CloneBounds(in) ELSE in.where_clause

EqBounds(in) ==
    IF TypeIdents(in.generics) # <<>> THEN CloneBounds(in) ELSE in.where_clause

DefaultBounds(in) ==
    IF TypeIdents(in.generics) # <<>> THEN CloneBounds(in) ELSE in.where_clause

\* Lines 164-188: the where clauses of the trait impls.
ResolveBounds ==
    /\ pc = "bounds"
    /\ bounds' = [clone |-> CloneBounds(input), debug |-> DebugBounds(input),
                  partial |-> PartialBounds(input), eq |-> EqBounds(input),
                  default |-> DefaultBounds(input)]
    /\ pc' = "expand"
    /\ UNCHANGED <<input, visited, splits, infos, err, params,
                   construct_fields, all_have_default, expanded, emitted, run>>

FieldIdents(fs) == [i \in 1..Len(fs) |-> fs[i].ident]

\* Lines 239-255: Default only when all fields have a default expression.
DefaultImpl(fs, all, where) ==
    IF all
    THEN Impl(where, <<>>,
              [i \in 1..Len(fs) |-> [ident |-> fs[i].ident, init |-> fs[i].default]])
    ELSE NoImpl

\* Lines 190-265: the impl blocks, assembled into one token stream.
Expand ==
    /\ pc = "expand"
    /\ expanded' =
          [new |-> Impl(input.where_clause, params, construct_fields),
           clone |-> Impl(bounds.clone, <<>>, FieldIdents(infos)),
           debug |-> Impl(bounds.debug, <<>>, FieldIdents(infos)),
           partial_eq |-> Impl(bounds.partial, <<>>, FieldIdents(infos)),
           eq |-> Impl(bounds.eq, <<>>, <<>>),
           default |-> DefaultImpl(infos, all_have_default, bounds.default)]
    /\ pc' = "ok"
    /\ UNCHANGED <<input, visited, splits, infos, err, params,
                   construct_fields, all_have_default, bounds, emitted, run>>

----------------------------------------------------------------------------
(* dataclass_macro, lines 36-39                                            *)

\* Ok(ts) => ts.into()
ReturnOk ==
    /\ pc = "ok"
    /\ emitted' = [kind |-> "tokens", error |-> NoErr, impls |-> expanded]
    /\ pc' = "done"
    /\ UNCHANGED <<input, visited, splits, infos, err, stage, run>>

\* Err(err) => err.to_compile_error().into()
ReturnErr ==
    /\ pc = "err"
    /\ emitted' = [kind |-> "compile_error", error |-> err, impls |-> NoExpansion]
    /\ pc' = "done"
    /\ UNCHANGED <<input, visited, splits, infos, err, stage, run>>

----------------------------------------------------------------------------
(* The generated code, run on instances.  A value is denoted by the tokens *)
(* of an expression that evaluates to it.                                  *)

Value(k, t) == <<Tok(k, t)>>
NaN == Value("ident", <<"N", "a", "N">>)

\* The values a caller passes for a parameter of the type.
ArgValues(ty) ==
    IF ty = "f64" THEN {Value("lit", <<"0">>), NaN}
    ELSE {Value("lit", <<"0">>), Value("lit", <<"1">>)}

\* ::core::default::Default::default() of the numeric field types.
ZeroValue(ty) == Value("lit", <<"0">>)

ArgTuples(ps) ==
    { a \in [1..Len(ps) -> ArgValues("i32") \cup ArgValues("f64")] :
        \A i \in 1..Len(ps) : a[i] \in ArgValues(ps[i].ty) }

TypeOf(ident) ==
    LET i == CHOOSE i \in 1..Len(input.fields) : input.fields[i].ident = ident
    IN  input.fields[i].ty

ParamIndex(ps, ident) == CHOOSE i \in 1..Len(ps) : ps[i].ident = ident

\* The value of one field initialiser of `Self { ... }`.
InitValue(ident, init, ps, args) ==
    IF init.k = "param" THEN args[ParamIndex(ps, ident)]
    ELSE IF init.k = "zero" THEN ZeroValue(TypeOf(ident))
    ELSE init.toks

\* `Self { #(#construct_fields),* }`, lines 194-196 and 248-250.
Construct(body, ps, args) ==
    [i \in 1..Len(body) |->
        [ident |-> body[i].ident,
         val |-> InitValue(body[i].ident, body[i].init, ps, args)]]

FieldOf(x, ident) ==
    LET i == CHOOSE i \in 1..Len(x) : x[i].ident = ident IN x[i].val

\* Type::new(args)
CallNew ==
    /\ pc = "done"
    /\ emitted.impls.new.present
    /\ \E args \in ArgTuples(emitted.impls.new.params) :
          /\ inst' = Construct(emitted.impls.new.body, emitted.impls.new.params, args)
          /\ call' = [fn |-> "new", args |-> args]
    /\ pc' = "built"
    /\ UNCHANGED <<input, visited, splits, infos, err, stage, emitted, copy,
                   eq_result, fmt_out>>

\* Default::default()
CallDefault ==
    /\ pc = "done"
    /\ emitted.impls.default.present
    /\ inst' = Construct(emitted.impls.default.body, <<>>, <<>>)
    /\ call' = [fn |-> "default", args |-> <<>>]
    /\ pc' = "built"
    /\ UNCHANGED <<input, visited, splits, infos, err, stage, emitted, copy,
                   eq_result, fmt_out>>

\* DebugFields that prints the fields last to first.
DebugFieldsReversed(body, x) ==
    [i \in 1..Len(body) |->
        [name |-> body[Len(body) + 1 - i],
         val |-> FieldOf(x, body[Len(body) + 1 - i])]]

\* Lines 213-221: one `.field(name, value)` per identifier.
DebugFields(body, x) ==
    [i \in 1..Len(body) |-> [name |-> body[i], val |-> FieldOf(x, body[i])]]

\* format!("{:?}", inst)
CallFmt ==
    /\ pc = "built"
    /\ emitted.impls.debug.present
    /\ fmt_out' = DebugFields(emitted.impls.debug.body, inst)
    /\ pc' = "shown"
    /\ UNCHANGED <<input, visited, splits, infos, err, stage, emitted, inst,
                   copy, eq_result, call>>

\* Lines 201-207: `ident: self.ident.clone()` for every identifier.
CloneFields(body, x) ==
    [i \in 1..Len(body) |-> [ident |-> body[i], val |-> FieldOf(x, body[i])]]

\* inst.clone()
CallClone ==
    /\ pc = "shown"
    /\ emitted.impls.clone.present
    /\ copy' = CloneFields(emitted.impls.clone.body, inst)
    /\ pc' = "cloned"
    /\ UNCHANGED <<input, visited, splits, infos, err, stage, emitted, inst,
                   eq_result, fmt_out, call>>

\* `self.ident == other.ident` on one field: the field type's PartialEq,
\* under which a floating-point NaN differs from itself.
FieldEq(a, b) == a # NaN /\ a = b

\* Lines 227-234: `#(#eq_checks)&&*`.  Without fields the repetition expands
\* to nothing, and the body of `fn eq(..) -> bool` is the empty block, which
\* has no bool value.
EvalEq(checks, x, y) ==
    IF checks = <<>> THEN "ill_typed"
    ELSE IF \A i \in 1..Len(checks) :
               FieldEq(FieldOf(x, checks[i]), FieldOf(y, checks[i]))
    THEN "true"
    ELSE "false"

\* inst == copy
CallEq ==
    /\ pc = "cloned"
    /\ emitted.impls.partial_eq.present
    /\ eq_result' = EvalEq(emitted.impls.partial_eq.body, inst, copy)
    /\ pc' = "compared"
    /\ UNCHANGED <<input, visited, splits, infos, err, stage, emitted, inst,
                   copy, fmt_out, call>>

----------------------------------------------------------------------------

Next ==
    \/ MatchFields
    \/ CollectField
    \/ BuildNew
    \/ ResolveBounds
    \/ Expand
    \/ ReturnOk
    \/ ReturnErr
    \/ CallNew
    \/ CallDefault
    \/ CallFmt
    \/ CallClone
    \/ CallEq

Spec == Init /\ [][Next]_vars

----------------------------------------------------------------------------
(* What the source text of the type definition says, read off the          *)
(* directives as written (not off the macro's own parse of them)           *)

\* The directives of a field's #[dataclass(...)] attributes, in order.
RECURSIVE DirsOf(_)
DirsOf(attrs) ==
    IF attrs = <<>> THEN <<>>
    ELSE (IF Head(attrs).path = "dataclass" /\ Head(attrs).meta = "list"
          THEN Head(attrs).dirs ELSE <<>>) \o DirsOf(Tail(attrs))

IsDefaultDir(d) == d.key = KwDefault

HasDefaultDir(field) ==
    \E k \in 1..Len(DirsOf(field.attrs)) : IsDefaultDir(DirsOf(field.attrs)[k])

\* The default directive that decides: the last one written.
LastDefaultDir(field) ==
    LET ds == SelectSeq(DirsOf(field.attrs), IsDefaultDir) IN ds[Len(ds)]

\* The value the directive stands for: the type's zero value for a bare
\* `default`, else the expression its text denotes.
DirValue(d, ty) ==
    IF d.form = "bare" THEN ZeroValue(ty) ELSE Lex(d.val, 1, <<>>).toks

\* The two documented forms, `default` and `default = "expr"`.
Documented(d) == d.form \in {"bare", "quoted"}

RequiredFields(in) ==
    LET Required(f) == ~HasDefaultDir(f)
        sel == SelectSeq(in.fields, Required)
    IN  [i \in 1..Len(sel) |-> [ident |-> sel[i].ident, ty |-> sel[i].ty]]

\* A directive in one of the two documented forms, `default` and
\* `default = "expr"` with expr a well-formed expression without string
\* literals.
WellFormedDefault(d) ==
    /\ IsDefaultDir(d)
    /\ \/ d.form = "bare"
       \/ /\ d.form = "quoted"
          /\ ParseStr(d.val).ok
          /\ \A k \in 1..Len(d.val) : d.val[k] \notin {QUOTE, BACKSLASH}

OnlyWellFormedDefaults(in) ==
    \A i \in 1..Len(in.fields) :
        \A k \in 1..Len(DirsOf(in.fields[i].attrs)) :
            WellFormedDefault(DirsOf(in.fields[i].attrs)[k])

Generated == emitted.kind = "tokens"
Constructed == pc \in {"built", "shown", "cloned", "compared"}

----------------------------------------------------------------------------
(* Claims                                                                  *)

\* C1: for every accepted type definition, `new` takes as parameters
\* exactly the fields without a default, in declared order, and the instance
\* it returns holds the supplied argument in each such field and, in every
\* other field, the value of the field's default expression: the zero value
\* for a bare `default`, the parsed expression for `default = "expr"`.
C1_NewTakesRequiredAndFillsDefaults ==
    (Constructed /\ call.fn = "new") =>
        /\ emitted.impls.new.params = RequiredFields(input)
        /\ Len(call.args) = Len(RequiredFields(input))
        /\ Len(inst) = Len(input.fields)
        /\ \A i \in 1..Len(input.fields) :
              LET f == input.fields[i]
              IN  /\ inst[i].ident = f.ident
                  /\ ~HasDefaultDir(f) =>
                        inst[i].val =
                            call.args[ParamIndex(RequiredFields(input), f.ident)]
                  /\ (HasDefaultDir(f) /\ Documented(LastDefaultDir(f))) =>
                        inst[i].val = DirValue(LastDefaultDir(f), f.ty)
                  /\ HasDefaultDir(f) =>
                        emitted.impls.new.body[i].init.k \in {"zero", "expr"}

\* A required field declared after a field with a quoted call default,
\* built by `new` from a non-zero argument.
C1_Witness ==
    /\ pc = "built"
    /\ call.fn = "new"
    /\ Len(input.fields) = 2
    /\ input.fields[1].attrs = <<DataclassAttr(<<DQuoted(TxtCall)>>)>>
    /\ input.fields[2].attrs = <<>>
    /\ call.args = <<Value("lit", <<"1">>)>>
    /\ inst[2].val = Value("lit", <<"1">>)

\* C2: the Default impl is emitted if and only if every field has a default
\* (also for a type without fields); when emitted it assembles every field,
\* in order, from the field's default expression.
C2_DefaultIffAllFieldsDefault ==
    /\ Generated =>
          /\ emitted.impls.default.present <=>
                \A i \in 1..Len(input.fields) : HasDefaultDir(input.fields[i])
          /\ emitted.impls.default.present =>
                /\ Len(emitted.impls.default.body) = Len(input.fields)
                /\ \A i \in 1..Len(input.fields) :
                      /\ emitted.impls.default.body[i].ident = input.fields[i].ident
                      /\ emitted.impls.default.body[i].init.k \in {"zero", "expr"}
    /\ (Constructed /\ call.fn = "default") =>
          /\ Len(inst) = Len(input.fields)
          /\ \A i \in 1..Len(input.fields) :
                /\ inst[i].ident = input.fields[i].ident
                /\ Documented(LastDefaultDir(input.fields[i])) =>
                      inst[i].val = DirValue(LastDefaultDir(input.fields[i]),
                                             input.fields[i].ty)

\* Two defaulted fields, built by Default::default().
C2_Witness ==
    /\ pc = "built"
    /\ call.fn = "default"
    /\ Len(input.fields) = 2
    /\ input.fields[1].attrs = <<DataclassAttr(<<DQuoted(TxtOne)>>)>>
    /\ input.fields[2].attrs = <<DataclassAttr(<<DBare>>)>>

\* Whether position `pos` of `s` lies inside a string literal, escapes
\* taken into account: `in` tells whether position i does.
RECURSIVE InLiteral(_, _, _, _)
InLiteral(s, i, pos, in) ==
    IF i = pos THEN in /\ s[i] # QUOTE
    ELSE IF in /\ s[i] = BACKSLASH
    THEN IF i + 1 = pos THEN TRUE ELSE InLiteral(s, i + 2, pos, in)
    ELSE IF s[i] = QUOTE THEN InLiteral(s, i + 1, pos, ~in)
    ELSE InLiteral(s, i + 1, pos, in)

\* C3: the splitter splits only on commas outside quoted literal text, also
\* when the literal holds escaped double quotes; a field annotated with one
\* `default = "expr"` yields exactly one directive.
C3_SplitsOnlyOutsideLiterals ==
    /\ \A k \in 1..Len(splits) :
          \A c \in 1..Len(splits[k].cuts) :
              ~InLiteral(splits[k].inside, 1, splits[k].cuts[c], FALSE)
    /\ \A i \in 1..Len(input.fields) :
          (visited = i /\ Len(DirsOf(input.fields[i].attrs)) = 1
              /\ Len(splits) = 1)
          => Len(splits[1].parts) = 1

\* C4: for every instance built by the generated constructor, whatever the
\* field types and the field count, equality of the instance and its clone
\* returns true.
C4_CloneEqualsOriginal ==
    pc = "compared" => eq_result = "true"

DefaultBeforeRequired(in) ==
    \E i, j \in 1..Len(in.fields) :
        i < j /\ HasDefaultDir(in.fields[i]) /\ ~HasDefaultDir(in.fields[j])

AllChecksPass(in) ==
    /\ in.shape = "named"
    /\ \A i \in 1..Len(in.fields) : ParseField(in.fields[i]).err = NoErr

FullExpansion(x) ==
    /\ x.new.present /\ x.clone.present /\ x.debug.present
    /\ x.partial_eq.present /\ x.eq.present
    /\ x.default.present <=> all_have_default

\* C6: generation is all-or-nothing: either every check passes and the full
\* set of operations is emitted (the Default impl when eligible), or a check
\* fails and the output holds the error and none of the operations; before
\* the macro returns nothing is emitted.
C6_AllOrNothing ==
    /\ pc \in {"start", "fields", "bounds", "expand", "ok", "err"} =>
          emitted.kind = "none" /\ emitted.impls = NoExpansion
    /\ pc \notin {"start", "fields", "bounds", "expand", "ok", "err"} =>
          \/ /\ AllChecksPass(input)
             /\ emitted.kind = "tokens"
             /\ emitted.error = NoErr
             /\ FullExpansion(emitted.impls)
             /\ Len(emitted.impls.clone.body) = Len(input.fields)
          \/ /\ ~AllChecksPass(input)
             /\ emitted.kind = "compile_error"
             /\ emitted.error # NoErr
             /\ emitted.impls = NoExpansion

\* The second field fails after the first was collected.
C6_Witness ==
    /\ pc = "done"
    /\ Len(input.fields) = 2
    /\ Len(infos) = 1
    /\ infos[1].default.k = "expr"
    /\ emitted.kind = "compile_error"
    /\ emitted.error.name = "b"

UnknownKeys(field) ==
    { DirsOf(field.attrs)[k].key : k \in
        { k \in 1..Len(DirsOf(field.attrs)) : ~IsDefaultDir(DirsOf(field.attrs)[k]) } }

\* C7: a directive with an unknown key makes generation fail with an error
\* that names the offending field and the offending key.
C7_UnknownKeyNamed ==
    (pc = "done" /\ emitted.kind = "compile_error"
        /\ emitted.error.msg = MsgUnknown) =>
        /\ emitted.error.on = "field"
        /\ \E i \in 1..Len(input.fields) :
              /\ input.fields[i].ident = emitted.error.name
              /\ emitted.error.detail \in UnknownKeys(input.fields[i])

ReprDisabled(field) ==
    \E k \in 1..Len(DirsOf(field.attrs)) :
        DirsOf(field.attrs)[k] = DRepr

\* The directives the specification's vocabulary admits on the modelled
\* fields: well-formed defaults and `repr = false`.
OnlyDefaultsAndRepr(in) ==
    \A i \in 1..Len(in.fields) :
        \A k \in 1..Len(DirsOf(in.fields[i].attrs)) :
            \/ WellFormedDefault(DirsOf(in.fields[i].attrs)[k])
            \/ DirsOf(in.fields[i].attrs)[k] = DRepr

ReprFields(in) ==
    LET Shown(f) == ~ReprDisabled(f)
        sel == SelectSeq(in.fields, Shown)
    IN  [i \in 1..Len(sel) |-> sel[i].ident]

TypeParams(in) ==
    { in.generics[i].ident : i \in { i \in 1..Len(in.generics) : in.generics[i].kind = "type" } }

C10_ShapeRejectedFirst ==
    input.shape # "named" =>
        /\ pc \in {"start", "err", "done"}
        /\ visited = 0
        /\ splits = <<>>
        /\ infos = <<>>
        /\ pc # "start" => err.on = "type" /\ err.msg \in {MsgNamed, MsgStruct}
        /\ pc = "done" =>
              /\ emitted.kind = "compile_error"
              /\ emitted.error = err
              /\ emitted.impls = NoExpansion

\* A tuple struct whose field carries an unknown directive, rejected.
C10_Witness ==
    /\ pc = "done"
    /\ input.shape = "tuple"
    /\ Len(input.fields) = 1
    /\ ReprDisabled(input.fields[1])
    /\ emitted.error.msg = MsgNamed

====
